---- MODULE Spec2Model ----
(***************************************************************************)
(* Model of the angular hit-boundary search of the prism scanner           *)
(* (PrismScanner.find_object, src/src/prisms/system.py) together with the  *)
(* parts of the scene and of Prism_properties it relies on.                *)
(*                                                                         *)
(* Angles of the scene are held in tenths of a degree (integers), so that  *)
(* the 0.1 degree refinement step is exactly 1.  Degrees/radians values of *)
(* the analytical model are exact rationals <<num, den>>; radians are      *)
(* expressed in units of pi.  The ray tracer is an oracle: a set of closed *)
(* angular intervals on which the chief ray strikes the target.            *)
(***************************************************************************)
EXTENDS Integers, Sequences, FiniteSets, TLC

VARIABLES
    withcylinder,   \* PrismScanner.withcylinder
    params,         \* PrismScanner.p.params (fields read by the search)
    oracle,         \* geometry of the target: where the chief ray hits it
    S,              \* the pyoptools System: prism rotation, rays, hit list
    pc,             \* position inside find_object
    low_angle,      \* find_object local (None or a degree)
    max_angle,      \* find_object local (degrees)
    angle,          \* loop variable of the coarse scan (degrees)
    hit_angle,      \* find_object local: list of coarse hits (degrees)
    low,            \* find_object local (tenths of a degree)
    high,           \* find_object local (tenths of a degree)
    new,            \* find_object local
    result,         \* value returned by find_object (tenths of a degree)
    probes,         \* history: every rotation find_object asked for
    iter,           \* history: iterations of the refinement loop started
    prior,          \* history: the scene as find_object found it
    other,          \* a second find_object call on the same scene
    model,          \* a Prism_properties object built on its own
    ret             \* the last call of a method of model and what it gave

vars == <<withcylinder, params, oracle, S, pc, low_angle, max_angle, angle,
          hit_angle, low, high, new, result, probes, iter, prior, other,
          model, ret>>

\* the state the single search of one scanner never touches
ext == <<other, model, ret>>

-----------------------------------------------------------------------------
(* Bounds of the model *)

\* intervals of the oracle end up to MaxTenth tenths away from a whole degree
MaxTenth == 2

\* iterations of the refinement loop the model follows before it stops
MaxIter == 16

\* tenths of a degree in one degree: the refinement step is 0.1 degree
Deci == 10

\* facet counts given to set_params; 180/facets is never halfway between
\* two integers, where the floating point error of radians/degrees decides
FacetChoices == {4, 14}

\* angles (degrees) at which the scene is plotted before a search
PlotAngles == {20}

\* scan angles (degrees) whose chief rays are drawn before a search
KeyAngles == {3}

\* whole degrees around which the intervals of the oracle begin and end
BasePairs == {<<-45, -44>>, <<-10, 10>>, <<3, 3>>, <<44, 45>>}

Offsets == (0 - MaxTenth)..MaxTenth

Contiguous ==
    {[always |-> FALSE, ivs |-> {<<Deci * bp[1] + s, Deci * bp[2] + t>>}] :
        bp \in BasePairs, s \in Offsets, t \in Offsets}

\* two separate hit regions with a gap between them
Split ==
    {[always |-> FALSE,
      ivs |-> {<<Deci * (0 - 10) + s, Deci * (0 - 8)>>,
               <<Deci * 8, Deci * 10 + t>>}] : s \in Offsets, t \in Offsets}

Unreachable == [always |-> FALSE, ivs |-> {}]

NeverMiss == [always |-> TRUE, ivs |-> {}]

Oracles ==
    {o \in Contiguous : \A iv \in o.ivs : iv[1] <= iv[2]}
        \cup Split \cup {Unreachable, NeverMiss}

-----------------------------------------------------------------------------
(* Python values *)

None == <<>>

Some(v) == <<v>>

\* truth value of "not x" for x None or an int: None and 0 are both falsy
Not(x) == x = None \/ x = Some(0)

Range(seq) == {seq[i] : i \in 1..Len(seq)}

PyMin(seq) == CHOOSE x \in Range(seq) : \A y \in Range(seq) : x <= y

PyMax(seq) == CHOOSE x \in Range(seq) : \A y \in Range(seq) : x >= y

\* int() of the rational q = <<num, den>>, q >= 0, den > 0
PyTrunc(q) == q[1] \div q[2]

\* round() of the rational q = <<num, den>>, den > 0: half to even
PyRound(q) ==
    LET fl == q[1] \div q[2]
        r  == q[1] % q[2]
    IN  IF 2 * r < q[2] THEN fl
        ELSE IF 2 * r > q[2] THEN fl + 1
        ELSE IF fl % 2 = 0 THEN fl ELSE fl + 1

\* np.radians / np.degrees on rationals, radians in units of pi
radians(q) == <<q[1], q[2] * 180>>

degrees(q) == <<q[1] * 180, q[2]>>

-----------------------------------------------------------------------------
(* Prism_properties *)

DefaultParams == [facets |-> 4]

\* max_angle_incidence without the halving of the facet angle
max_angle_incidence_NoHalf(p) ==
    LET f == p.facets
    IN  radians(<<90 * f - (180 * f - 360), f>>)

\* radians(90 - (180 - 360/facets)/2)
max_angle_incidence(p) ==
    LET f == p.facets
        \* 180 - 360/f          = (180 f - 360) / f
        \* (180 - 360/f) / 2    = (180 f - 360) / (2 f)
        \* 90 - that            = (90 * 2 f - (180 f - 360)) / (2 f)
    IN  radians(<<90 * 2 * f - (180 * f - 360), 2 * f>>)

-----------------------------------------------------------------------------
(* The scene: pyoptools System with the prism and the target *)

Hit(o, a) == o.always \/ \E iv \in o.ivs : iv[1] <= a /\ a <= iv[2]

NewSystem == [rotation |-> 0, np_rays |-> 0, p_rays |-> 0, hit_list |-> 0]

reset(s) == [s EXCEPT !.np_rays = 0, !.p_rays = 0, !.hit_list = 0]

ray_add(s) == [s EXCEPT !.np_rays = @ + 1]

\* every ray not yet propagated is traced through the scene as it stands
propagate(s, o) ==
    [s EXCEPT !.np_rays = 0,
              !.p_rays = @ + s.np_rays,
              !.hit_list = IF Hit(o, s.rotation) THEN @ + s.np_rays ELSE @]

\* set_orientation that drops the rotation it is given
set_orientation_NoTurn(s, o, a, rst) ==
    LET clean == IF rst THEN reset(s) ELSE s
    IN  propagate(ray_add(clean), o)

\* set_orientation that never resets the scene
set_orientation_NoReset(s, o, a, rst) ==
    propagate(ray_add([s EXCEPT !.rotation = a]), o)

\* set_orientation('prism', rotation=(0, 0, radians(a)), reset=rst)
set_orientation(s, o, a, rst) ==
    LET turned == [s EXCEPT !.rotation = a]
        clean  == IF rst THEN reset(turned) ELSE turned
    IN  propagate(ray_add(clean), o)

-----------------------------------------------------------------------------
(* Values of the state outside the single search *)

\* locals of a find_object call that has not been made
NoSearch ==
    [pc |-> "idle", low_angle |-> None, max_angle |-> 0, angle |-> 0,
     hit_angle |-> <<>>, low |-> 0, high |-> 0, new |-> FALSE,
     result |-> <<>>, iter |-> 0, foreign |-> FALSE]

\* no Prism_properties object has been built
NoModel == [state |-> "none", params |-> None]

\* no method of the model has been called
NoCall == [op |-> "none"]

-----------------------------------------------------------------------------
(* State after PrismScanner(withcylinder=...) *)

Init ==
    /\ withcylinder \in BOOLEAN
    /\ params = DefaultParams
    /\ oracle \in Oracles
    /\ S = NewSystem
    /\ pc = "idle"
    /\ low_angle = None
    /\ max_angle = 0
    /\ angle = 0
    /\ hit_angle = <<>>
    /\ low = 0
    /\ high = 0
    /\ new = FALSE
    /\ result = <<>>
    /\ probes = <<>>
    /\ iter = 0
    /\ prior = NewSystem
    /\ other = NoSearch
    /\ model = NoModel
    /\ ret = NoCall

locals == <<low_angle, max_angle, angle, hit_angle, low, high, new, result,
            probes, iter, prior>>

\* p.set_params({..., 'facets': f, ...})
set_params(f) ==
    /\ pc = "idle"
    /\ params' = [facets |-> f]
    /\ UNCHANGED ext
    /\ UNCHANGED <<withcylinder, oracle, S, pc, locals>>

\* plot(angle=a)
plot(a) ==
    /\ pc = "idle"
    /\ S' = set_orientation(propagate(ray_add(reset(S)), oracle), oracle,
                            Deci * a, TRUE)
    /\ UNCHANGED ext
    /\ UNCHANGED <<withcylinder, params, oracle, pc, locals>>

\* draw_key_rays(diode=False) with max_scan_angle = a: the rays at -a, a
\* and 0 are all left in the scene
draw_key_rays(a) ==
    /\ pc = "idle"
    /\ LET s1 == set_orientation(reset(S), oracle, 0 - Deci * a, FALSE)
           s2 == set_orientation(s1, oracle, Deci * a, FALSE)
       IN  S' = set_orientation(s2, oracle, 0, FALSE)
    /\ UNCHANGED ext
    /\ UNCHANGED <<withcylinder, params, oracle, pc, locals>>

-----------------------------------------------------------------------------
(* find_object, one action per step *)

\* entry up to the head of the coarse loop
find_object ==
    /\ pc = "idle"
    /\ LET la == IF withcylinder THEN None ELSE Some(0)
           ma == PyRound(degrees(max_angle_incidence(params)))
       IN  /\ max_angle' = ma
           /\ low_angle' = IF Not(la) THEN Some(0 - ma) ELSE la
    /\ hit_angle' = <<>>
    /\ angle' = low_angle'[1]
    /\ pc' = "coarse"
    /\ prior' = S
    /\ UNCHANGED ext
    /\ UNCHANGED <<withcylinder, params, oracle, S, low, high, new, result,
                   probes, iter>>

\* for angle in range(low_angle, max_angle, 1): set_orientation(...)
CoarseRotate ==
    /\ pc = "coarse"
    /\ angle < max_angle
    /\ S' = set_orientation(S, oracle, Deci * angle, TRUE)
    /\ probes' = Append(probes, [angle |-> Deci * angle, phase |-> "coarse"])
    /\ pc' = "coarse_read"
    /\ UNCHANGED ext
    /\ UNCHANGED prior
    /\ UNCHANGED <<withcylinder, params, oracle, low_angle, max_angle, angle,
                   hit_angle, low, high, new, result, iter>>

\* if len(target.hit_list): hit_angle.append(angle)
CoarseRead ==
    /\ pc = "coarse_read"
    /\ hit_angle' = IF S.hit_list > 0 THEN Append(hit_angle, angle)
                    ELSE hit_angle
    /\ angle' = angle + 1
    /\ pc' = "coarse"
    /\ UNCHANGED ext
    /\ UNCHANGED prior
    /\ UNCHANGED <<withcylinder, params, oracle, S, low_angle, max_angle,
                   low, high, new, result, probes, iter>>

\* the coarse loop ends without the test for an empty hit list: min() of an
\* empty list raises ValueError
CoarseDone_NoEmptyCheck ==
    /\ pc = "coarse"
    /\ angle >= max_angle
    /\ IF Len(hit_angle) = 0
       THEN /\ pc' = "raised"
            /\ UNCHANGED <<low, high, new>>
       ELSE /\ low' = Deci * PyMin(hit_angle)
            /\ high' = Deci * PyMax(hit_angle)
            /\ new' = TRUE
            /\ pc' = "while"
    /\ UNCHANGED ext
    /\ UNCHANGED prior
    /\ UNCHANGED <<withcylinder, params, oracle, S, low_angle, max_angle,
                   angle, hit_angle, result, probes, iter>>

\* the coarse loop ends with low, high = max, min
CoarseDone_Swapped ==
    /\ pc = "coarse"
    /\ angle >= max_angle
    /\ IF Len(hit_angle) = 0
       THEN /\ result' = hit_angle
            /\ pc' = "done"
            /\ UNCHANGED <<low, high, new>>
       ELSE /\ low' = Deci * PyMax(hit_angle)
            /\ high' = Deci * PyMin(hit_angle)
            /\ new' = TRUE
            /\ pc' = "while"
            /\ UNCHANGED result
    /\ UNCHANGED ext
    /\ UNCHANGED prior
    /\ UNCHANGED <<withcylinder, params, oracle, S, low_angle, max_angle,
                   angle, hit_angle, probes, iter>>

\* end of the coarse loop: empty return, or low, high = min, max
CoarseDone ==
    /\ pc = "coarse"
    /\ angle >= max_angle
    /\ IF Len(hit_angle) = 0
       THEN /\ result' = hit_angle
            /\ pc' = "done"
            /\ UNCHANGED <<low, high, new>>
       ELSE /\ low' = Deci * PyMin(hit_angle)
            /\ high' = Deci * PyMax(hit_angle)
            /\ new' = TRUE
            /\ pc' = "while"
            /\ UNCHANGED result
    /\ UNCHANGED ext
    /\ UNCHANGED prior
    /\ UNCHANGED <<withcylinder, params, oracle, S, low_angle, max_angle,
                   angle, hit_angle, probes, iter>>

\* while new: set_orientation(low - 0.1)
LowRotate ==
    /\ pc = "while"
    /\ new
    /\ iter < MaxIter
    /\ S' = set_orientation(S, oracle, low - 1, TRUE)
    /\ probes' = Append(probes, [angle |-> low - 1, phase |-> "refine"])
    /\ iter' = iter + 1
    /\ pc' = "low_read"
    /\ UNCHANGED ext
    /\ UNCHANGED prior
    /\ UNCHANGED <<withcylinder, params, oracle, low_angle, max_angle, angle,
                   hit_angle, low, high, new, result>>

\* the low side lowering low also when the probe missed
LowRead_AlsoOnMiss ==
    /\ pc = "low_read"
    /\ low' = low - 1
    /\ IF S.hit_list > 0 THEN UNCHANGED new ELSE new' = FALSE
    /\ pc' = "high_rotate"
    /\ UNCHANGED ext
    /\ UNCHANGED prior
    /\ UNCHANGED <<withcylinder, params, oracle, S, low_angle, max_angle,
                   angle, hit_angle, high, result, probes, iter>>

\* the low side stepping by a whole degree instead of 0.1
LowRead_WholeDegree ==
    /\ pc = "low_read"
    /\ IF S.hit_list > 0
       THEN low' = low - Deci /\ UNCHANGED new
       ELSE new' = FALSE /\ UNCHANGED low
    /\ pc' = "high_rotate"
    /\ UNCHANGED ext
    /\ UNCHANGED prior
    /\ UNCHANGED <<withcylinder, params, oracle, S, low_angle, max_angle,
                   angle, hit_angle, high, result, probes, iter>>

\* if len(target.hit_list): low = low - 0.1  else: new = False
LowRead ==
    /\ pc = "low_read"
    /\ IF S.hit_list > 0
       THEN low' = low - 1 /\ UNCHANGED new
       ELSE new' = FALSE /\ UNCHANGED low
    /\ pc' = "high_rotate"
    /\ UNCHANGED ext
    /\ UNCHANGED prior
    /\ UNCHANGED <<withcylinder, params, oracle, S, low_angle, max_angle,
                   angle, hit_angle, high, result, probes, iter>>

\* set_orientation(high + 0.1)
HighRotate ==
    /\ pc = "high_rotate"
    /\ S' = set_orientation(S, oracle, high + 1, TRUE)
    /\ probes' = Append(probes, [angle |-> high + 1, phase |-> "refine"])
    /\ pc' = "high_read"
    /\ UNCHANGED ext
    /\ UNCHANGED prior
    /\ UNCHANGED <<withcylinder, params, oracle, low_angle, max_angle, angle,
                   hit_angle, low, high, new, result, iter>>

\* the high side leaving new alone on a miss: the loop goes on while the
\* low side still hits
HighRead_KeepsNew ==
    /\ pc = "high_read"
    /\ IF S.hit_list > 0
       THEN high' = high + 1 /\ new' = TRUE
       ELSE UNCHANGED <<high, new>>
    /\ pc' = "while"
    /\ UNCHANGED ext
    /\ UNCHANGED prior
    /\ UNCHANGED <<withcylinder, params, oracle, S, low_angle, max_angle,
                   angle, hit_angle, low, result, probes, iter>>

\* the high side with its test inverted: high is raised on a miss
HighRead_Inverted ==
    /\ pc = "high_read"
    /\ IF S.hit_list = 0
       THEN high' = high + 1 /\ new' = TRUE
       ELSE new' = FALSE /\ UNCHANGED high
    /\ pc' = "while"
    /\ UNCHANGED ext
    /\ UNCHANGED prior
    /\ UNCHANGED <<withcylinder, params, oracle, S, low_angle, max_angle,
                   angle, hit_angle, low, result, probes, iter>>

\* if len(target.hit_list): high = high + 0.1; new = True  else: new = False
HighRead ==
    /\ pc = "high_read"
    /\ IF S.hit_list > 0
       THEN high' = high + 1 /\ new' = TRUE
       ELSE new' = FALSE /\ UNCHANGED high
    /\ pc' = "while"
    /\ UNCHANGED ext
    /\ UNCHANGED prior
    /\ UNCHANGED <<withcylinder, params, oracle, S, low_angle, max_angle,
                   angle, hit_angle, low, result, probes, iter>>

\* a refinement loop that gives up after five iterations
Return_MaxSteps ==
    /\ pc = "while"
    /\ ~new \/ iter >= 5
    /\ result' = <<low, high>>
    /\ pc' = "done"
    /\ UNCHANGED ext
    /\ UNCHANGED prior
    /\ UNCHANGED <<withcylinder, params, oracle, S, low_angle, max_angle,
                   angle, hit_angle, low, high, new, probes, iter>>

\* the loop test fails: return [low, high]
Return ==
    /\ pc = "while"
    /\ ~new
    /\ result' = <<low, high>>
    /\ pc' = "done"
    /\ UNCHANGED ext
    /\ UNCHANGED prior
    /\ UNCHANGED <<withcylinder, params, oracle, S, low_angle, max_angle,
                   angle, hit_angle, low, high, new, probes, iter>>

Search ==
    \/ find_object
    \/ CoarseRotate
    \/ CoarseRead
    \/ CoarseDone
    \/ LowRotate
    \/ LowRead
    \/ HighRotate
    \/ HighRead
    \/ Return

Next ==
    \/ \E f \in FacetChoices : set_params(f)
    \/ \E a \in PlotAngles : plot(a)
    \/ \E a \in KeyAngles : draw_key_rays(a)
    \/ find_object
    \/ CoarseRotate
    \/ CoarseRead
    \/ CoarseDone
    \/ LowRotate
    \/ LowRead
    \/ HighRotate
    \/ HighRead
    \/ Return

Spec == Init /\ [][Next]_vars

\* find_object runs to completion once called: it never waits
FairSpec == Spec /\ WF_vars(Search)

-----------------------------------------------------------------------------
(* Vocabulary of the properties *)

Abs(x) == IF x < 0 THEN 0 - x ELSE x

\* the search has left the coarse loop
PastCoarse == pc \in {"while", "low_read", "high_rotate", "high_read", "done"}

CoarseProbes == SelectSeq(probes, LAMBDA e : e.phase = "coarse")

RefineProbes == SelectSeq(probes, LAMBDA e : e.phase = "refine")

\* whole degrees the coarse scan visits
CoarseDegrees == low_angle[1]..(max_angle - 1)

\* the hit set is one interval [a, b]
OneInterval(o) == ~o.always /\ Cardinality(o.ivs) = 1

IntervalOf(o) == CHOOSE iv \in o.ivs : TRUE

Returned == pc = "done" /\ result # <<>>

-----------------------------------------------------------------------------
(* C1: for a hit set that is one interval [a, b] inside the coarse range   *)
(* and holding a whole degree, the returned low and high are each within   *)
(* 0.1 degree of a and of b.                                                *)
C1_WithinOneStep ==
    (pc = "done" /\ OneInterval(oracle)) =>
        LET a == IntervalOf(oracle)[1]
            b == IntervalOf(oracle)[2]
        IN  (/\ Deci * low_angle[1] <= a
             /\ b <= Deci * (max_angle - 1)
             /\ \E d \in CoarseDegrees : a <= Deci * d /\ Deci * d <= b)
            => /\ Len(result) = 2
               /\ Abs(result[1] - a) <= 1
               /\ Abs(result[2] - b) <= 1

(* C2: an iteration of the refinement loop in which the low bound advanced *)
(* and the probe at high + 0.1 missed is followed by another iteration.    *)
C2_EitherSideContinues ==
    [][(pc = "high_read" /\ new /\ S.hit_list = 0) => new']_vars

(* C3: built with withcylinder = False, the coarse scan probes exactly the *)
(* angles 0 .. max_angle - 1 and no negative angle.                        *)
C3_ClampedAtZero ==
    (~withcylinder /\ pc # "idle") =>
        /\ \A i \in 1..Len(CoarseProbes) : CoarseProbes[i].angle >= 0
        /\ PastCoarse =>
               CoarseProbes = [i \in 1..max_angle |->
                                  [angle |-> Deci * (i - 1), phase |-> "coarse"]]

(* C4: when no coarse angle hits, find_object returns the empty list right *)
(* after the coarse scan, without an exception and without any refinement  *)
(* probe.                                                                   *)
C4_EmptyReturn ==
    (pc \notin {"idle", "coarse", "coarse_read"}
        /\ \A d \in CoarseDegrees : ~Hit(oracle, Deci * d))
    => /\ pc = "done"
       /\ result = <<>>
       /\ RefineProbes = <<>>
       /\ \A i \in 1..Len(probes) : probes[i].angle % Deci = 0

C4_Witness ==
    /\ pc = "done"
    /\ result = <<>>
    /\ oracle.ivs # {}
    /\ Len(probes) = 2 * max_angle

(* C5: the coarse phase probes every whole degree of [low_angle,           *)
(* max_angle) once, ascending, with max_angle the rounding of 180/facets   *)
(* degrees and low_angle = -max_angle by default, and every refinement     *)
(* probe comes after the last coarse probe.                                *)
C5_TwoPhases ==
    pc # "idle" =>
        LET n == max_angle - low_angle[1]
        IN  /\ Abs(2 * params.facets * max_angle - 360) <= params.facets
            /\ withcylinder => low_angle = Some(0 - max_angle)
            /\ \A i \in 1..Len(probes) :
                   IF i <= n
                   THEN probes[i] = [angle |-> Deci * (low_angle[1] + i - 1),
                                     phase |-> "coarse"]
                   ELSE probes[i].phase = "refine"
            /\ PastCoarse => Len(probes) >= n
            /\ pc \in {"coarse", "coarse_read"} => Len(probes) <= n

C5_Witness ==
    /\ pc = "done"
    /\ params.facets = 14
    /\ Len(CoarseProbes) = 26
    /\ Len(RefineProbes) >= 4

(* C6: every angle the prism is rotated to by find_object, coarse or       *)
(* refinement, lies within [-max_angle, max_angle], and so do the returned *)
(* low and high.                                                           *)
C6_WithinGeometricLimit ==
    pc # "idle" =>
        /\ \A i \in 1..Len(probes) : Abs(probes[i].angle) <= Deci * max_angle
        /\ Returned => /\ 0 - Deci * max_angle <= result[1]
                       /\ result[2] <= Deci * max_angle

(* C7: for a hit set of finite extent find_object terminates; the coarse   *)
(* scan makes at most 180 probes.                                          *)
C7_Terminates ==
    /\ [](Len(CoarseProbes) <= 180)
    /\ (pc # "idle" /\ ~oracle.always) ~> (pc = "done")

C7_Witness ==
    /\ pc = "done"
    /\ ~oracle.always
    /\ Len(CoarseProbes) = 90
    /\ iter >= 3

(* C8: against an oracle that never misses find_object never returns: each *)
(* iteration of the refinement loop lowers low and raises high by 0.1      *)
(* degree and asks for another iteration, with no limit on their number.   *)
C8_NeverReturns ==
    oracle.always =>
        /\ pc # "done"
        /\ pc = "while" =>
               /\ new
               /\ low = Deci * (0 - max_angle) - iter
               /\ high = Deci * (max_angle - 1) + iter

C8_Witness ==
    /\ oracle.always
    /\ pc = "while"
    /\ iter = MaxIter
    /\ high - low = Deci * (2 * max_angle - 1) + 2 * MaxIter

(* C9, as stated: every whole degree between the returned low and high was *)
(* reported as a hit during the coarse scan.                               *)
C9_ContiguousHitRegion ==
    Returned =>
        \A d \in (0 - 180)..180 :
            (result[1] <= Deci * d /\ Deci * d <= result[2])
                => d \in Range(hit_angle)

(* C9, amended: when the hit set is one interval, every whole degree of    *)
(* the coarse range between the returned low and high was reported as a    *)
(* hit during the coarse scan.                                             *)
C9_ContiguousIfOracleIs ==
    (Returned /\ OneInterval(oracle)) =>
        \A d \in CoarseDegrees :
            (result[1] <= Deci * d /\ Deci * d <= result[2])
                => d \in Range(hit_angle)

C9_Witness ==
    /\ Returned
    /\ OneInterval(oracle)
    /\ result[1] < Deci * PyMin(hit_angle)
    /\ Len(hit_angle) >= 3
    /\ Len(hit_angle) < Len(CoarseProbes)

(* C10: find_object leaves the prism at the last probed angle: high + 0.1  *)
(* after a non-empty result, max_angle - 1 after an empty one.             *)
C10_SceneLeftRotated ==
    pc = "done" =>
        IF result = <<>>
        THEN S.rotation = Deci * (max_angle - 1)
        ELSE S.rotation = result[2] + 1

C10_Witness ==
    /\ Returned
    /\ S.rotation = result[2] + 1
    /\ S.rotation # 0
    /\ S.np_rays = 0
    /\ S.p_rays = 1

-----------------------------------------------------------------------------
(* Two find_object calls on one scene.  The second call keeps its locals   *)
(* in the record other; its steps are those of the first call, and both    *)
(* turn and read the one System S.                                         *)

\* facet count of the scanner searched twice: max_angle is 1 degree and the
\* coarse scan probes -1 and 0 degrees
ConcFacets == 180

\* hit sets around 0 degree, narrower than the coarse step
ConcOracles ==
    {[always |-> FALSE, ivs |-> {<<0 - s, t>>}] :
        s \in 0..MaxTenth, t \in 0..MaxTenth}

ConcInit ==
    /\ withcylinder = TRUE
    /\ params = [facets |-> ConcFacets]
    /\ oracle \in ConcOracles
    /\ S = NewSystem
    /\ pc = "idle"
    /\ low_angle = None
    /\ max_angle = 0
    /\ angle = 0
    /\ hit_angle = <<>>
    /\ low = 0
    /\ high = 0
    /\ new = FALSE
    /\ result = <<>>
    /\ probes = <<>>
    /\ iter = 0
    /\ prior = NewSystem
    /\ other = NoSearch
    /\ model = NoModel
    /\ ret = NoCall

\* what a step of the second call leaves alone, S and other apart
OtherFrame ==
    UNCHANGED <<withcylinder, params, oracle, pc, locals, model, ret>>

\* the observation about to be read was made at another angle than asked
Foreign(asked) == other.foreign \/ S.rotation # asked

o_find_object ==
    /\ other.pc = "idle"
    /\ LET la == IF withcylinder THEN None ELSE Some(0)
           ma == PyRound(degrees(max_angle_incidence(params)))
           lo == IF Not(la) THEN Some(0 - ma) ELSE la
       IN  other' = [other EXCEPT !.max_angle = ma, !.low_angle = lo,
                                  !.hit_angle = <<>>, !.angle = lo[1],
                                  !.pc = "coarse"]
    /\ UNCHANGED S
    /\ OtherFrame

o_CoarseRotate ==
    /\ other.pc = "coarse"
    /\ other.angle < other.max_angle
    /\ S' = set_orientation(S, oracle, Deci * other.angle, TRUE)
    /\ other' = [other EXCEPT !.pc = "coarse_read"]
    /\ OtherFrame

o_CoarseRead ==
    /\ other.pc = "coarse_read"
    /\ other' = [other EXCEPT
                    !.hit_angle = IF S.hit_list > 0
                                  THEN Append(@, other.angle) ELSE @,
                    !.angle = @ + 1,
                    !.foreign = Foreign(Deci * other.angle),
                    !.pc = "coarse"]
    /\ UNCHANGED S
    /\ OtherFrame

o_CoarseDone ==
    /\ other.pc = "coarse"
    /\ other.angle >= other.max_angle
    /\ other' = IF Len(other.hit_angle) = 0
                THEN [other EXCEPT !.result = other.hit_angle, !.pc = "done"]
                ELSE [other EXCEPT !.low = Deci * PyMin(other.hit_angle),
                                   !.high = Deci * PyMax(other.hit_angle),
                                   !.new = TRUE, !.pc = "while"]
    /\ UNCHANGED S
    /\ OtherFrame

o_LowRotate ==
    /\ other.pc = "while"
    /\ other.new
    /\ other.iter < MaxIter
    /\ S' = set_orientation(S, oracle, other.low - 1, TRUE)
    /\ other' = [other EXCEPT !.iter = @ + 1, !.pc = "low_read"]
    /\ OtherFrame

\* the low side of the second call stepping by a whole degree
o_LowRead_WholeDegree ==
    /\ other.pc = "low_read"
    /\ other' = IF S.hit_list > 0
                THEN [other EXCEPT !.low = @ - Deci,
                                   !.foreign = Foreign(other.low - 1),
                                   !.pc = "high_rotate"]
                ELSE [other EXCEPT !.new = FALSE,
                                   !.foreign = Foreign(other.low - 1),
                                   !.pc = "high_rotate"]
    /\ UNCHANGED S
    /\ OtherFrame

o_LowRead ==
    /\ other.pc = "low_read"
    /\ other' = IF S.hit_list > 0
                THEN [other EXCEPT !.low = @ - 1,
                                   !.foreign = Foreign(other.low - 1),
                                   !.pc = "high_rotate"]
                ELSE [other EXCEPT !.new = FALSE,
                                   !.foreign = Foreign(other.low - 1),
                                   !.pc = "high_rotate"]
    /\ UNCHANGED S
    /\ OtherFrame

o_HighRotate ==
    /\ other.pc = "high_rotate"
    /\ S' = set_orientation(S, oracle, other.high + 1, TRUE)
    /\ other' = [other EXCEPT !.pc = "high_read"]
    /\ OtherFrame

o_HighRead ==
    /\ other.pc = "high_read"
    /\ other' = IF S.hit_list > 0
                THEN [other EXCEPT !.high = @ + 1, !.new = TRUE,
                                   !.foreign = Foreign(other.high + 1),
                                   !.pc = "while"]
                ELSE [other EXCEPT !.new = FALSE,
                                   !.foreign = Foreign(other.high + 1),
                                   !.pc = "while"]
    /\ UNCHANGED S
    /\ OtherFrame

o_Return ==
    /\ other.pc = "while"
    /\ ~other.new
    /\ other' = [other EXCEPT !.result = <<other.low, other.high>>,
                              !.pc = "done"]
    /\ UNCHANGED S
    /\ OtherFrame

ConcNext ==
    \/ find_object
    \/ CoarseRotate
    \/ CoarseRead
    \/ CoarseDone
    \/ LowRotate
    \/ LowRead
    \/ HighRotate
    \/ HighRead
    \/ Return
    \/ o_find_object
    \/ o_CoarseRotate
    \/ o_CoarseRead
    \/ o_CoarseDone
    \/ o_LowRotate
    \/ o_LowRead
    \/ o_HighRotate
    \/ o_HighRead
    \/ o_Return

ConcSpec == ConcInit /\ [][ConcNext]_vars

\* find_object run alone, start to return, as one function of the hit set
RECURSIVE SoloRefine(_, _, _)
SoloRefine(o, lo, hi) ==
    LET lo2 == IF Hit(o, lo - 1) THEN lo - 1 ELSE lo
    IN  IF Hit(o, hi + 1) THEN SoloRefine(o, lo2, hi + 1) ELSE <<lo2, hi>>

SoloResult(o, p, wc) ==
    LET la   == IF wc THEN None ELSE Some(0)
        ma   == PyRound(degrees(max_angle_incidence(p)))
        lo   == IF Not(la) THEN 0 - ma ELSE la[1]
        hits == {d \in lo..(ma - 1) : Hit(o, Deci * d)}
    IN  IF hits = {} THEN <<>>
        ELSE SoloRefine(o,
                        Deci * (CHOOSE x \in hits : \A y \in hits : x <= y),
                        Deci * (CHOOSE x \in hits : \A y \in hits : x >= y))

(* C11: two searches interleaved on one scene corrupt each other: a search *)
(* whose result differs from the one it returns alone has read a hit list  *)
(* left by a rotation it did not ask for, and such a search exists.        *)
C11_OnlyForeignReadsCorrupt ==
    (other.pc = "done" /\ other.result # SoloResult(oracle, params, withcylinder))
        => other.foreign

C11_Witness ==
    /\ pc = "done"
    /\ other.pc = "done"
    /\ other.foreign
    /\ other.result # SoloResult(oracle, params, withcylinder)
    /\ result = SoloResult(oracle, params, withcylinder)

-----------------------------------------------------------------------------
(* Prism_properties on its own.  Numbers are exact rationals <<num, den>>  *)
(* with den > 0; angles are radians in units of pi.  The values of         *)
(* strehl_ratio and speed_edges along the 1000 samples are a curve that    *)
(* belongs to the object: any shape, in hundredths.                        *)

\* facet counts given to the constructor run from 1 to MaxFacets
MaxFacets == 8

\* samples of the threshold search
iterations == 1000

\* default floors of max_recommended_angle, in hundredths
DefaultStrehl == 71

DefaultFraction == 80

RECURSIVE GCD(_, _)
GCD(a, b) == IF b = 0 THEN a ELSE GCD(b, a % b)

\* lowest terms, the sign carried by the numerator
Norm(q) ==
    LET g == GCD(Abs(q[1]), Abs(q[2]))
    IN  IF q[2] < 0 THEN <<(0 - q[1]) \div g, (0 - q[2]) \div g>>
        ELSE <<q[1] \div g, q[2] \div g>>

Rat(i) == <<i, 1>>

RatMul(a, b) == Norm(<<a[1] * b[1], a[2] * b[2]>>)

\* a / b for b # 0
RatDiv(a, b) ==
    IF b[1] > 0 THEN Norm(<<a[1] * b[2], a[2] * b[1]>>)
    ELSE Norm(<<0 - a[1] * b[2], 0 - a[2] * b[1]>>)

RatAdd(a, b) == Norm(<<a[1] * b[2] + b[1] * a[2], a[2] * b[2]>>)

RatSub(a, b) == Norm(<<a[1] * b[2] - b[1] * a[2], a[2] * b[2]>>)

RatLess(a, b) == a[1] * b[2] < b[1] * a[2]

RatEq(a, b) == a[1] * b[2] = b[1] * a[2]

\* min(a, b) of Python: b only when b < a
RatMin(a, b) == IF RatLess(b, a) THEN b ELSE a

RequiredKeys ==
    {"n", "facets", "wavelength", "T", "f_length", "d_bundle", "rot_hz",
     "apex_angle"}

\* the dictionary set_params falls back to
DefaultDict ==
    [n |-> <<153, 100>>, facets |-> 4, wavelength |-> <<405, 1>>,
     T |-> <<30, 1>>, f_length |-> <<75, 1>>, d_bundle |-> <<12, 10>>,
     rot_hz |-> <<350, 1>>, apex_angle |-> <<1, 60>>]

Without(d, k) == [x \in DOMAIN d \ {k} |-> d[x]]

With(d, k, v) == [x \in DOMAIN d \cup {k} |-> IF x = k THEN v ELSE d[x]]

EmptyDict == [x \in {} |-> 0]

\* facet counts handed to the constructor: set_params takes any integer
FacetCounts == {0 - 4, 0} \cup 1..MaxFacets

\* dictionaries handed to the constructor
Dicts ==
    {With(DefaultDict, "facets", f) : f \in FacetCounts}
        \cup {Without(DefaultDict, k) : k \in RequiredKeys}
        \cup {With(DefaultDict, k, v) :
                 k \in {"wavelength", "T", "f_length", "d_bundle"},
                 v \in {<<0, 1>>, <<0 - 1, 1>>}}
        \cup {EmptyDict}

CtorArgs == {None} \cup {Some(d) : d \in Dicts}

\* sample indices at which a curve leaves its plateau
KeyIdx == {0, 1, 999}

\* a curve: one hundredth above the default floor, except at the samples of
\* at, where it is at the floor (0) or one hundredth below it (-1)
Flat == [at |-> EmptyDict]

Curves ==
    {Flat}
        \cup {[at |-> [x \in {i} |-> 0 - 1]] : i \in KeyIdx}
        \cup {[at |-> [x \in {0} |-> 0]]}
        \cup {[at |-> [x \in {1, 999} |-> IF x = 1 THEN 0 ELSE 0 - 1]]}

Val(curve, floor, i) ==
    IF i \in DOMAIN curve.at THEN floor + curve.at[i] ELSE floor + 1

\* Prism_properties(arg): __init__ and set_params
Prism_properties(arg, cs, cf) ==
    LET d == IF arg = None \/ DOMAIN arg[1] = {} THEN DefaultDict ELSE arg[1]
    IN  IF "f_length" \notin DOMAIN d \/ "d_bundle" \notin DOMAIN d
        THEN [state |-> "KeyError", params |-> None]
        ELSE IF d.d_bundle[1] = 0
        THEN [state |-> "ZeroDivisionError", params |-> None]
        ELSE [state |-> "ok",
              params |-> With(d, "f_numb", RatDiv(d.f_length, d.d_bundle)),
              strehl |-> cs, speed |-> cf]

\* the loop "for i in range(lo, hi): if func(angle_i) < threshold: return"
\* of minimize: the sample it returns at, or -1 when it runs to the end.
\* range(lo, hi) is walked as range(lo, mid) followed by range(mid, hi).
RECURSIVE first_below(_, _, _, _)
first_below(curve, threshold, lo, hi) ==
    IF hi <= lo THEN 0 - 1
    ELSE IF hi = lo + 1
    THEN IF Val(curve, threshold.dflt, lo) < threshold.floor
         THEN lo ELSE 0 - 1
    ELSE LET mid  == (lo + hi) \div 2
             left == first_below(curve, threshold, lo, mid)
         IN  IF left >= 0 THEN left
             ELSE first_below(curve, threshold, mid, hi)

\* minimize returning the sample that dropped, not the one before it
minimize_SampleI(curve, threshold, utilt_max) ==
    LET i == first_below(curve, threshold, 0, iterations)
    IN  IF i >= 0
        THEN RatMul(RatDiv(utilt_max, Rat(iterations)), Rat(i))
        ELSE utilt_max

\* minimize(func, threshold): threshold.floor is the floor asked for,
\* threshold.dflt the default floor the curve of func is drawn around
minimize(curve, threshold, utilt_max) ==
    LET i == first_below(curve, threshold, 0, iterations)
    IN  IF i >= 0
        THEN RatMul(RatDiv(utilt_max, Rat(iterations)), Rat(i - 1))
        ELSE utilt_max

\* self.max_angle_incidence() for facets # 0, in lowest terms
utiltmax(p) == Norm(max_angle_incidence(p))

max_recommended_angle(m, strehl_ratio, min_fraction) ==
    LET utilt_max      == utiltmax(m.params)
        utilt_strehl   == minimize(m.strehl,
                                   [floor |-> strehl_ratio,
                                    dflt |-> DefaultStrehl], utilt_max)
        utilt_fraction == minimize(m.speed,
                                   [floor |-> min_fraction,
                                    dflt |-> DefaultFraction], utilt_max)
    IN  RatMin(utilt_fraction, utilt_strehl)

duty_cycle(m) ==
    RatDiv(max_recommended_angle(m, DefaultStrehl, DefaultFraction),
           utiltmax(m.params))

\* waist = 2*wavelength/pi*f_numb / 1E3, in units of 1/pi
spot_size(m, f_numb) ==
    LET fn == IF f_numb = None THEN m.params.f_numb ELSE f_numb[1]
    IN  RatDiv(RatMul(RatMul(Rat(2), m.params.wavelength), fn), Rat(1000))

\* pi*waist**2/wavelength, in units of 1/pi
rayleigh_length(m, f_numb) ==
    LET waist == spot_size(m, f_numb)
    IN  RatDiv(RatMul(waist, waist), m.params.wavelength)

\* (n-1)/n*T
longitudinal_shift(m) ==
    RatMul(RatDiv(RatSub(m.params.n, Rat(1)), m.params.n), m.params.T)

\* values of (2*pi*lambdarms)**2 the wavefront error of a record can take
WavefrontErrors == {<<0, 1>>, <<1, 2>>, <<1, 1>>, <<2, 1>>, <<3, 1>>, <<11, 1>>}

\* rstrehl = 1-(2*pi*lambdarms)**2+(2*pi*lambdarms)**4/2, x the square
rstrehl(x) ==
    RatAdd(RatSub(Rat(1), x), RatDiv(RatMul(x, x), Rat(2)))

-----------------------------------------------------------------------------
(* Calls on the Prism_properties object *)

Returns(op, v) == [op |-> op, raised |-> "", value |-> v]

Raises(op, e) == [op |-> op, raised |-> e]

\* every key of ks is in the parameter dictionary
Has(ks) == ks \subseteq DOMAIN model.params

StrehlKeys == {"wavelength", "f_numb", "n", "T"}

SpeedKeys == {"T", "n"}

AnaFrame == UNCHANGED <<withcylinder, params, oracle, S, pc, locals, other>>

AnaInit ==
    /\ withcylinder = TRUE
    /\ params = DefaultParams
    /\ oracle = Unreachable
    /\ S = NewSystem
    /\ pc = "idle"
    /\ low_angle = None
    /\ max_angle = 0
    /\ angle = 0
    /\ hit_angle = <<>>
    /\ low = 0
    /\ high = 0
    /\ new = FALSE
    /\ result = <<>>
    /\ probes = <<>>
    /\ iter = 0
    /\ prior = NewSystem
    /\ other = NoSearch
    /\ model = NoModel
    /\ ret = NoCall

\* p = Prism_properties(arg)
New(arg, cs, cf) ==
    /\ model.state = "none"
    /\ model' = Prism_properties(arg, cs, cf)
    /\ ret' = NoCall
    /\ AnaFrame

\* spot_size caching the f-number it was called with
Call_spot_size_Caching(f_numb) ==
    /\ model.state = "ok"
    /\ ret' = IF ~Has({"wavelength"}) \/ (f_numb = None /\ ~Has({"f_numb"}))
              THEN Raises("spot_size", "KeyError")
              ELSE Returns("spot_size", spot_size(model, f_numb))
    /\ model' = IF f_numb = None THEN model
                ELSE [model EXCEPT !.params = With(@, "f_numb", f_numb[1])]
    /\ AnaFrame

Call_spot_size(f_numb) ==
    /\ model.state = "ok"
    /\ ret' = IF ~Has({"wavelength"}) \/ (f_numb = None /\ ~Has({"f_numb"}))
              THEN Raises("spot_size", "KeyError")
              ELSE Returns("spot_size", spot_size(model, f_numb))
    /\ UNCHANGED model
    /\ AnaFrame

Call_rayleigh_length(f_numb) ==
    /\ model.state = "ok"
    /\ ret' = IF ~Has({"wavelength"}) \/ (f_numb = None /\ ~Has({"f_numb"}))
              THEN Raises("rayleigh_length", "KeyError")
              ELSE IF model.params.wavelength[1] = 0
              THEN Raises("rayleigh_length", "ZeroDivisionError")
              ELSE Returns("rayleigh_length", rayleigh_length(model, f_numb))
    /\ UNCHANGED model
    /\ AnaFrame

Call_max_angle_incidence ==
    /\ model.state = "ok"
    /\ ret' = IF ~Has({"facets"})
              THEN Raises("max_angle_incidence", "KeyError")
              ELSE IF model.params.facets = 0
              THEN Raises("max_angle_incidence", "ZeroDivisionError")
              ELSE Returns("max_angle_incidence", utiltmax(model.params))
    /\ UNCHANGED model
    /\ AnaFrame

Call_longitudinal_shift ==
    /\ model.state = "ok"
    /\ ret' = IF ~Has({"n", "T"})
              THEN Raises("longitudinal_shift", "KeyError")
              ELSE Returns("longitudinal_shift", longitudinal_shift(model))
    /\ UNCHANGED model
    /\ AnaFrame

\* transversal_shift(angle), cross_scan_error(): the value is not modelled
Call_shift(op) ==
    /\ model.state = "ok"
    /\ ret' = IF \/ op = "transversal_shift" /\ ~Has({"T", "n"})
                 \/ op = "cross_scan_error" /\ ~Has({"apex_angle", "n", "T"})
              THEN Raises(op, "KeyError")
              ELSE [op |-> op, raised |-> ""]
    /\ UNCHANGED model
    /\ AnaFrame

\* strehl_ratio(angle of sample i)
Call_strehl_ratio(i) ==
    /\ model.state = "ok"
    /\ ret' = IF ~Has(StrehlKeys) THEN Raises("strehl_ratio", "KeyError")
              ELSE Returns("strehl_ratio", Val(model.strehl, DefaultStrehl, i))
    /\ UNCHANGED model
    /\ AnaFrame

\* strehl_ratio(utilt) at a tilt where (2*pi*lambdarms)**2 comes out as x
Call_strehl_ratio_rms(x) ==
    /\ model.state = "ok"
    /\ ret' = IF ~Has(StrehlKeys) THEN Raises("strehl_ratio", "KeyError")
              ELSE [op |-> "strehl_ratio", raised |-> "", x |-> x,
                    value |-> rstrehl(x)]
    /\ UNCHANGED model
    /\ AnaFrame

\* speed_edges(angle of sample i)
Call_speed_edges(i) ==
    /\ model.state = "ok"
    /\ ret' = IF ~Has(SpeedKeys) THEN Raises("speed_edges", "KeyError")
              ELSE Returns("speed_edges", Val(model.speed, DefaultFraction, i))
    /\ UNCHANGED model
    /\ AnaFrame

Call_max_recommended_angle(strehl_ratio, min_fraction) ==
    /\ model.state = "ok"
    /\ ret' = IF ~Has({"facets"} \cup StrehlKeys \cup SpeedKeys)
              THEN Raises("max_recommended_angle", "KeyError")
              ELSE IF model.params.facets = 0
              THEN Raises("max_recommended_angle", "ZeroDivisionError")
              ELSE [op |-> "max_recommended_angle", raised |-> "",
                    strehl_ratio |-> strehl_ratio,
                    min_fraction |-> min_fraction,
                    value |-> max_recommended_angle(model, strehl_ratio,
                                                    min_fraction)]
    /\ UNCHANGED model
    /\ AnaFrame

Call_duty_cycle ==
    /\ model.state = "ok"
    /\ ret' = IF ~Has({"facets"} \cup StrehlKeys \cup SpeedKeys)
              THEN Raises("duty_cycle", "KeyError")
              ELSE IF model.params.facets = 0
              THEN Raises("duty_cycle", "ZeroDivisionError")
              ELSE Returns("duty_cycle", duty_cycle(model))
    /\ UNCHANGED model
    /\ AnaFrame

\* floors max_recommended_angle is called with, in hundredths
StrehlFloors == {DefaultStrehl, DefaultStrehl + 1}

FractionFloors == {DefaultFraction, DefaultFraction - 1}

AnaNext ==
    \/ \E arg \in CtorArgs : New(arg, Flat, Flat)
    \/ \E f_numb \in {None, Some(<<2, 1>>)} : Call_spot_size(f_numb)
    \/ \E f_numb \in {None, Some(<<2, 1>>)} : Call_rayleigh_length(f_numb)
    \/ Call_max_angle_incidence
    \/ Call_longitudinal_shift
    \/ \E op \in {"transversal_shift", "cross_scan_error"} : Call_shift(op)
    \/ \E i \in KeyIdx : Call_strehl_ratio(i)
    \/ \E x \in WavefrontErrors : Call_strehl_ratio_rms(x)
    \/ \E i \in KeyIdx : Call_speed_edges(i)
    \/ \E sf \in StrehlFloors, mf \in FractionFloors :
           Call_max_recommended_angle(sf, mf)
    \/ Call_duty_cycle

AnaSpec == AnaInit /\ [][AnaNext]_vars

-----------------------------------------------------------------------------
(* The threshold search of max_recommended_angle over every pair of curves *)
(* of Curves, on objects that differ in their facet count.                 *)

RecInit == AnaInit

RecNext ==
    \/ \E f \in FacetCounts, cs \in Curves, cf \in Curves :
           New(Some(With(DefaultDict, "facets", f)), cs, cf)
    \/ Call_max_angle_incidence
    \/ \E sf \in StrehlFloors, mf \in FractionFloors :
           Call_max_recommended_angle(sf, mf)
    \/ Call_duty_cycle

RecSpec == RecInit /\ [][RecNext]_vars

-----------------------------------------------------------------------------
(* Vocabulary of the claims about Prism_properties *)

\* the call that returned last
Done(op) == ret.op = op /\ ret.raised = ""

\* samples at which a curve is strictly below floor
BelowAt(curve, floor, dflt) ==
    {i \in 0..(iterations - 1) : Val(curve, dflt, i) < floor}

Drops(curve, floor, dflt) == BelowAt(curve, floor, dflt) # {}

FirstDrop(curve, floor, dflt) ==
    CHOOSE i \in BelowAt(curve, floor, dflt) :
        \A j \in BelowAt(curve, floor, dflt) : i <= j

\* the sample before the first drop, as an angle; the ceiling without a drop
Boundary(curve, floor, dflt, ceiling) ==
    IF Drops(curve, floor, dflt)
    THEN <<ceiling[1] * (FirstDrop(curve, floor, dflt) - 1),
           ceiling[2] * iterations>>
    ELSE ceiling

StrehlBoundary ==
    Boundary(model.strehl, ret.strehl_ratio, DefaultStrehl,
             utiltmax(model.params))

SpeedBoundary ==
    Boundary(model.speed, ret.min_fraction, DefaultFraction,
             utiltmax(model.params))

SomeDrop ==
    \/ Drops(model.strehl, ret.strehl_ratio, DefaultStrehl)
    \/ Drops(model.speed, ret.min_fraction, DefaultFraction)

-----------------------------------------------------------------------------
(* C12: max_recommended_angle() never exceeds max_angle_incidence(), for   *)
(* every parameter record, pair of floors and shape of the two curves.     *)

C12_BelowCeiling ==
    Done("max_recommended_angle")
        => ~RatLess(utiltmax(model.params), ret.value)

(* C13: duty_cycle() lies in (0, 1] for every valid parameter record, also *)
(* when a metric is below its floor at sample 0 or 1 of the search.        *)

C13_DutyCycleInUnitInterval ==
    (Done("duty_cycle") /\ model.params.facets >= 3)
        => /\ RatLess(Rat(0), ret.value)
           /\ ~RatLess(Rat(1), ret.value)

(* C14: for each metric the search stops at the first sample strictly      *)
(* below the floor and takes the sample before it as the boundary (the     *)
(* ceiling when there is none); the result is the smaller of the two       *)
(* boundaries.                                                             *)

C14_MinOfBoundaries ==
    Done("max_recommended_angle")
        => /\ \/ RatEq(ret.value, StrehlBoundary)
              \/ RatEq(ret.value, SpeedBoundary)
           /\ ~RatLess(StrehlBoundary, ret.value)
           /\ ~RatLess(SpeedBoundary, ret.value)

C14_Witness ==
    /\ Done("max_recommended_angle")
    /\ model.params.facets = 4
    /\ Drops(model.strehl, ret.strehl_ratio, DefaultStrehl)
    /\ Drops(model.speed, ret.min_fraction, DefaultFraction)
    /\ FirstDrop(model.strehl, ret.strehl_ratio, DefaultStrehl) = 999
    /\ FirstDrop(model.speed, ret.min_fraction, DefaultFraction) = 1
    /\ ret.value = <<0, 1>>

(* C15: without a drop of either metric max_recommended_angle returns      *)
(* max_angle_incidence() unreduced, and it returns a value strictly below  *)
(* max_angle_incidence() exactly when some metric drops below its floor.   *)

C15_BelowCeilingIffDrop ==
    Done("max_recommended_angle")
        => /\ ~SomeDrop => ret.value = utiltmax(model.params)
           /\ RatLess(ret.value, utiltmax(model.params)) <=> SomeDrop

(* C16: a dictionary lacking one of the required keys never yields a       *)
(* model object.                                                           *)

C16_MissingKeyFails ==
    model.state = "ok" => RequiredKeys \subseteq DOMAIN model.params

(* C17: a facet count below 3 never yields a model object.                 *)

C17_FewFacetsFail ==
    (model.state = "ok" /\ "facets" \in DOMAIN model.params)
        => model.params.facets >= 3

(* C18: a non-positive wavelength, T, f_length or d_bundle never yields a  *)
(* model object.                                                           *)

C18_NonPositiveFails ==
    model.state = "ok"
        => \A k \in {"wavelength", "T", "f_length", "d_bundle"}
                       \cap DOMAIN model.params :
               model.params[k][1] > 0

(* C19: f_numb is f_length / d_bundle from construction on, and no call    *)
(* of a metric changes any entry of the parameter record.                  *)

C19_ParamsFrozen ==
    /\ [](model.state = "ok"
            => RatEq(model.params.f_numb,
                     RatDiv(model.params.f_length, model.params.d_bundle)))
    /\ [][model.state = "ok" => model' = model]_vars

C19_Witness ==
    /\ ret.op = "spot_size"
    /\ ret.raised = ""
    /\ model.params.f_numb = <<125, 2>>
    /\ ret.value = spot_size(model, Some(<<2, 1>>))

(* C20: max_angle_incidence() is strictly decreasing in facets over        *)
(* facets >= 3, and is exactly 45 degrees for facets = 4.                  *)

-----------------------------------------------------------------------------
(* C22: whatever rotation and rays the scene held when find_object was     *)
(* called, the interval returned is the one the oracle's answers at the    *)
(* probed angles determine, the same as from a fresh scene: every hit list *)
(* read tells whether the oracle hits at the angle probed last.            *)

C22_ResultFromOracleOnly ==
    /\ pc \in {"coarse_read", "low_read", "high_read"}
           => (S.hit_list > 0) = Hit(oracle, probes[Len(probes)].angle)
    /\ pc = "done" => result = SoloResult(oracle, params, withcylinder)

C22_Witness ==
    /\ pc = "done"
    /\ result # <<>>
    /\ prior.p_rays > 1
    /\ prior.hit_list > 0
    /\ result = SoloResult(oracle, params, withcylinder)

(* C23: from the end of the coarse scan on low is at most the smallest and *)
(* high at least the largest coarse hit, so every non-empty result         *)
(* [low, high] contains every coarse hit and has low <= high.              *)

C23_ContainsCoarseHits ==
    /\ (PastCoarse /\ hit_angle # <<>>)
           => /\ low <= Deci * PyMin(hit_angle)
              /\ Deci * PyMax(hit_angle) <= high
    /\ (pc = "done" /\ result # <<>>)
           => /\ result = <<low, high>>
              /\ \A i \in 1..Len(hit_angle) :
                     result[1] <= Deci * hit_angle[i]
                         /\ Deci * hit_angle[i] <= result[2]
              /\ result[1] <= result[2]

C23_Witness ==
    /\ pc = "done"
    /\ Len(hit_angle) > 1
    /\ result[1] < Deci * PyMin(hit_angle)
    /\ Deci * PyMax(hit_angle) < result[2]

\* times low was lowered and high was raised since the coarse scan
LowSteps == Deci * PyMin(hit_angle) - low

HighSteps == high - Deci * PyMax(hit_angle)

(* C24: low is lowered at most once more than high is raised: an iteration *)
(* of the refinement loop is started only after every earlier one raised   *)
(* high, and the loop is left after the first one that did not.            *)

C24_LowAtMostOneAhead ==
    (PastCoarse /\ hit_angle # <<>>)
        => /\ LowSteps <= HighSteps + 1
           /\ LowSteps <= iter
           /\ pc \in {"low_read", "high_rotate", "high_read"}
                  => iter = HighSteps + 1
           /\ pc = "while" => (new <=> iter = HighSteps)
           /\ pc = "done" => iter = HighSteps + 1

C24_Witness ==
    /\ pc = "done"
    /\ result # <<>>
    /\ HighSteps = 1
    /\ LowSteps = 2

\* the angle a was probed and the oracle hits there
ProbedHit(a) ==
    /\ \E i \in 1..Len(probes) : probes[i].angle = a
    /\ Hit(oracle, a)

(* C25: both endpoints of a non-empty result are probed angles at which    *)
(* the oracle hits, and the last probe, one step above high, missed.       *)

C25_EndpointsHitLastProbeMissed ==
    (pc = "done" /\ result # <<>>)
        => /\ ProbedHit(result[1])
           /\ ProbedHit(result[2])
           /\ probes[Len(probes)] = [angle |-> result[2] + 1,
                                     phase |-> "refine"]
           /\ ~Hit(oracle, result[2] + 1)
           /\ S.rotation = result[2] + 1
           /\ S.hit_list = 0

C25_Witness ==
    /\ pc = "done"
    /\ result # <<>>
    /\ LowSteps > 0
    /\ HighSteps > 0
    /\ ~Hit(oracle, result[1] - 1)

-----------------------------------------------------------------------------
(* C21: strehl_ratio never returns more than 1, whatever the wavefront     *)
(* error.                                                                  *)

C21_StrehlAtMostOne ==
    (Done("strehl_ratio") /\ "x" \in DOMAIN ret)
        => ~RatLess(Rat(1), ret.value)

\* the grid index of the angle max_recommended_angle returned
ReturnedIndex ==
    RatMul(RatDiv(ret.value, utiltmax(model.params)), Rat(iterations))

(* C26: when max_recommended_angle returns sample j >= 0 of its grid, both *)
(* metrics are at or above their floors at every sample 0..j.              *)

C26_FloorsMetUpToResult ==
    (Done("max_recommended_angle") /\ ReturnedIndex[2] = 1
         /\ ReturnedIndex[1] \in 0..(iterations - 1))
        => \A i \in 0..ReturnedIndex[1] :
               /\ Val(model.strehl, DefaultStrehl, i) >= ret.strehl_ratio
               /\ Val(model.speed, DefaultFraction, i) >= ret.min_fraction

(* C27: max_recommended_angle never returns a negative angle, also when a  *)
(* metric is below its floor at sample 0.                                  *)

C27_NonNegative ==
    (Done("max_recommended_angle") /\ model.params.facets >= 3)
        => ~RatLess(ret.value, Rat(0))

====
